---- MODULE Spec2Model ----
(***************************************************************************)
(* Model of python/dgl/enter/pipeline/nodepred/gen.py: the node            *)
(* prediction pipeline's configuration generator (get_cfg_func.config) and *)
(* script generator (gen_script).                                          *)
(*                                                                         *)
(* Python dictionaries are objects on a heap: a dictionary maps keys to    *)
(* primitives or to references to other dictionaries, so that the          *)
(* difference between a deep copy, a shallow copy and an alias is visible. *)
(***************************************************************************)
EXTENDS Integers, Sequences, FiniteSets, TLC

(***************************************************************************)
(* Bounds                                                                  *)
(***************************************************************************)
MaxCount == 2

(***************************************************************************)
(* Python values.  Every value is a record of one shape.                   *)
(***************************************************************************)
PyStr(s) == [t |-> "str", s |-> s, i |-> 0, d |-> <<>>]

PyInt(n) == [t |-> "int", s |-> "", i |-> n, d |-> <<>>]

PyFloat(s) == [t |-> "float", s |-> s, i |-> 0, d |-> <<>>]

PyEnum(s) == [t |-> "enum", s |-> s, i |-> 0, d |-> <<>>]

PyDict(f) == [t |-> "dict", s |-> "", i |-> 0, d |-> f]

PyRef(a) == [t |-> "ref", s |-> "", i |-> a, d |-> <<>>]

Has(f, k) == k \in DOMAIN f

DictSet(f, k, v) == [x \in (DOMAIN f) \cup {k} |-> IF x = k THEN v ELSE f[x]]

DictDel(f, k) == [x \in (DOMAIN f) \ {k} |-> f[x]]

DictUpdate(f, g) == [x \in (DOMAIN f) \cup (DOMAIN g) |-> IF x \in DOMAIN g THEN g[x] ELSE f[x]]

(***************************************************************************)
(* The heap: address -> dictionary object.                                 *)
(***************************************************************************)
EmptyHeap == <<>>

Fresh(h) == IF DOMAIN h = {} THEN 1 ELSE 1 + CHOOSE m \in DOMAIN h : \A n \in DOMAIN h : n <= m

HeapPut(h, a, f) == [x \in (DOMAIN h) \cup {a} |-> IF x = a THEN f ELSE h[x]]

RECURSIVE Materialize(_, _)
Materialize(h, a) ==
    [k \in DOMAIN h[a] |->
        IF h[a][k].t = "ref" THEN PyDict(Materialize(h, h[a][k].i)) ELSE h[a][k]]

RECURSIVE Alloc(_, _)
RECURSIVE AllocKeys(_, _, _, _)
Alloc(h, f) ==
    LET a == Fresh(h)
    IN  [heap |-> AllocKeys(HeapPut(h, a, <<>>), a, f, DOMAIN f), addr |-> a]

AllocKeys(h, a, f, keys) ==
    IF keys = {} THEN h
    ELSE LET k == CHOOSE x \in keys : TRUE
         IN  IF f[k].t = "dict"
             THEN LET r == Alloc(h, f[k].d)
                  IN  AllocKeys(HeapPut(r.heap, a, DictSet(r.heap[a], k, PyRef(r.addr))),
                                a, f, keys \ {k})
             ELSE AllocKeys(HeapPut(h, a, DictSet(h[a], k, f[k])), a, f, keys \ {k})

RECURSIVE Reach(_, _)
Reach(h, a) ==
    {a} \cup UNION { Reach(h, h[a][k].i) : k \in {x \in DOMAIN h[a] : h[a][x].t = "ref"} }

Collect(h, roots) ==
    LET live == UNION { Reach(h, a) : a \in roots }
    IN  [a \in live |-> h[a]]

\* copy.copy: a new top-level dictionary sharing the nested ones
ShallowCopy(h, a) ==
    LET n == Fresh(h)
    IN  [heap |-> HeapPut(h, n, h[a]), addr |-> n]

\* copy.deepcopy
DeepCopy(h, a) == Alloc(h, Materialize(h, a))

\* d.pop(k) on the dictionary object at address a (the key must exist)
PopKey(h, a, k) == HeapPut(h, a, DictDel(h[a], k))

\* d[k] = v
SetKey(h, a, k, v) == HeapPut(h, a, DictSet(h[a], k, v))

(***************************************************************************)
(* The catalogs (utils/factory.py) and the schema library.                 *)
(***************************************************************************)
PipelineName == "nodepred"

DeviceEnum == {"cpu", "cuda"}

\* DataFactory.registry: dataset name -> its parameters with their defaults
DataFactory_registry ==
    [cora |-> [params |-> <<>>,
               code |-> [data_import_code |-> PyStr("from dgl.data import CoraGraphDataset"),
                         data_initialize_code |-> PyStr("CoraGraphDataset(**cfg[\"data\"])")]],
     csv  |-> [params |-> [data_path |-> PyStr("./")],
               code |-> [data_import_code |-> PyStr("from dgl.data import CSVDataset"),
                         data_initialize_code |-> PyStr("CSVDataset(**cfg[\"data\"])")]]]

\* NodeModelFactory.registry: model name -> parameters, source, class name, docs
NodeModelFactory_registry ==
    [gcn  |-> [params |-> [hidden_size |-> PyInt(16)],
               source |-> PyStr("class GCN(nn.Module): ..."),
               class_name |-> PyStr("GCN"),
               doc |-> [data_info |-> PyStr("The information of the dataset"),
                        hidden_size |-> PyStr("Hidden size")]],
     sage |-> [params |-> [aggregator_type |-> PyStr("gcn")],
               source |-> PyStr("class GraphSAGE(nn.Module): ..."),
               class_name |-> PyStr("GraphSAGE"),
               doc |-> [data_info |-> PyStr("The information of the dataset"),
                        aggregator_type |-> PyStr("Aggregator type to use")]]]

DataFactory_get_dataset_enum == DOMAIN DataFactory_registry

NodeModelFactory_get_model_enum == DOMAIN NodeModelFactory_registry

DataFactory_get_pydantic_config ==
    [n \in DOMAIN DataFactory_registry |-> DataFactory_registry[n].params]

NodeModelFactory_get_pydantic_model_config ==
    [n \in DOMAIN NodeModelFactory_registry |-> NodeModelFactory_registry[n].params]

NodeModelFactory_get_source_code(name) == NodeModelFactory_registry[name].source

NodeModelFactory_get_model_class_name(name) == NodeModelFactory_registry[name].class_name

NodeModelFactory_get_constructor_doc_dict(name) == NodeModelFactory_registry[name].doc

DataFactory_get_generated_code_dict(name) == DataFactory_registry[name].code

EarlyStopConfig == [patience |-> PyInt(20), checkpoint_path |-> PyStr("checkpoint.pth")]

\* variant: other default epoch count and evaluation period
NodepredPipelineCfg_other_defaults ==
    [node_embed_size |-> PyInt(-1),
     early_stop      |-> PyDict(EarlyStopConfig),
     num_epochs      |-> PyInt(100),
     eval_period     |-> PyInt(1),
     optimizer       |-> PyDict([name |-> PyStr("Adam"), lr |-> PyFloat("0.005")]),
     loss            |-> PyStr("CrossEntropyLoss")]

\* class NodepredPipelineCfg(BaseModel): the fields and their defaults
NodepredPipelineCfg ==
    [node_embed_size |-> PyInt(-1),
     early_stop      |-> PyDict(EarlyStopConfig),
     num_epochs      |-> PyInt(200),
     eval_period     |-> PyInt(5),
     optimizer       |-> PyDict([name |-> PyStr("Adam"), lr |-> PyFloat("0.005")]),
     loss            |-> PyStr("CrossEntropyLoss")]

\* the value of the class attribute user_cfg_cls before setup_user_cfg_cls ran:
\* the property object of lines 50-52, which is not callable
PropertyObject ==
    [name |-> "property", data |-> <<>>, model |-> <<>>, general_pipeline |-> <<>>]

\* class NodePredUserConfig(UserConfig), composed from the catalogs
NodePredUserConfig ==
    [name             |-> "NodePredUserConfig",
     data             |-> DataFactory_get_pydantic_config,
     model            |-> NodeModelFactory_get_pydantic_model_config,
     general_pipeline |-> NodepredPipelineCfg]

\* a field value has the type of the field (a float field takes an int)
FieldTypeOK(dflt, v) ==
    \/ v.t = dflt.t
    \/ dflt.t = "float" /\ v.t = "int"

\* the fields of a model that the input gives have the right type
FieldsOK(fields, d) ==
    \A k \in (DOMAIN fields) \cap (DOMAIN d) : FieldTypeOK(fields[k], d[k])

\* the model's fields, from the input where given and from the defaults otherwise
FillDefaults(fields, d) ==
    [k \in DOMAIN fields |-> IF k \in DOMAIN d THEN d[k] ELSE fields[k]]

\* a discriminated union: the "name" selects the variant
VariantOK(variants, v) ==
    /\ v.t = "dict"
    /\ Has(v.d, "name")
    /\ v.d["name"].t = "str"
    /\ v.d["name"].s \in DOMAIN variants
    /\ FieldsOK(variants[v.d["name"].s], v.d)

VariantValue(variants, v) ==
    PyDict(DictSet(FillDefaults(variants[v.d["name"].s], v.d), "name", v.d["name"]))

PipelineCfgOK(fields, v) ==
    /\ v.t = "dict"
    /\ FieldsOK(fields, v.d)
    /\ Has(v.d, "early_stop") => FieldsOK(EarlyStopConfig, v.d["early_stop"].d)

PipelineCfgValue(fields, v) ==
    LET filled == FillDefaults(fields, v.d)
    IN  PyDict([filled EXCEPT !["early_stop"] =
                   PyDict(FillDefaults(EarlyStopConfig, filled["early_stop"].d))])

\* cls(**d): pydantic construction of the user configuration
ValidateOK(cls, d) ==
    /\ cls.name # "property"
    /\ Has(d, "pipeline_name") /\ d["pipeline_name"] = PyStr(PipelineName)
    /\ Has(d, "device") /\ d["device"].t \in {"str", "enum"} /\ d["device"].s \in DeviceEnum
    /\ Has(d, "data") /\ VariantOK(cls.data, d["data"])
    /\ Has(d, "model") /\ VariantOK(cls.model, d["model"])
    /\ Has(d, "general_pipeline") => PipelineCfgOK(cls.general_pipeline, d["general_pipeline"])

\* cls(**d).dict()
ValidatedDict(cls, d) ==
    [pipeline_name    |-> d["pipeline_name"],
     device           |-> PyEnum(d["device"].s),
     data             |-> VariantValue(cls.data, d["data"]),
     model            |-> VariantValue(cls.model, d["model"]),
     general_pipeline |-> IF Has(d, "general_pipeline")
                          THEN PipelineCfgValue(cls.general_pipeline, d["general_pipeline"])
                          ELSE PipelineCfgValue(cls.general_pipeline, PyDict(<<>>))]

(***************************************************************************)
(* Subscript chains on heap dictionaries                                   *)
(***************************************************************************)
\* d[k1][k2]...: the address of the nested dictionary, 0 when a key is missing
RECURSIVE Subscript(_, _, _)
Subscript(h, a, path) ==
    IF path = <<>> THEN a
    ELSE IF Has(h[a], Head(path)) /\ h[a][Head(path)].t = "ref"
         THEN Subscript(h, h[a][Head(path)].i, Tail(path))
         ELSE 0

\* d[k1][k2]....pop(key) succeeds
CanPop(h, a, path, key) ==
    /\ Subscript(h, a, path) # 0
    /\ Has(h[Subscript(h, a, path)], key)

PopAt(h, a, path, key) == PopKey(h, Subscript(h, a, path), key)

(***************************************************************************)
(* str(dict): the literal lists every leaf of the dictionary by its path   *)
(***************************************************************************)
IsLeaf(v) == v.t # "dict" \/ DOMAIN v.d = {}

RECURSIVE LeafPaths(_)
LeafPaths(f) ==
    UNION { IF IsLeaf(f[k]) THEN {<<k>>}
            ELSE { <<k>> \o p : p \in LeafPaths(f[k].d) } : k \in DOMAIN f }

RECURSIVE ValueAt(_, _)
ValueAt(f, p) == IF Len(p) = 1 THEN f[p[1]] ELSE ValueAt(f[p[1]].d, Tail(p))

\* f"cfg = {str(d)}"
UserCfgStr(f) ==
    [t |-> "fstr", s |-> "cfg = ", i |-> 0, d |-> [p \in LeafPaths(f) |-> ValueAt(f, p)]]

(***************************************************************************)
(* Inputs                                                                  *)
(***************************************************************************)
Paths == {"cfg.yml"}

\* the config callable can be invoked directly, with a choice the option
\* parser would have refused
DataArgs == DataFactory_get_dataset_enum \cup {"unregistered"}

ModelArgs == NodeModelFactory_get_model_enum \cup {"unregistered"}

DeviceArgs == { PyEnum(x) : x \in DeviceEnum } \cup { PyStr("tpu") }

OptimizerChoices ==
    { [name |-> PyStr("Adam"), lr |-> PyFloat("0.005")],
      [lr |-> PyFloat("0.01")] }

GeneralPipelineChoices ==
    { PyDict(DictSet(NodepredPipelineCfg, "optimizer", PyDict(o))) : o \in OptimizerChoices }
    \cup { PyDict([num_epochs |-> PyInt(100)]) }

DataChoices ==
    { PyDict([name |-> PyStr("cora")]),
      PyDict([name |-> PyStr("csv"), data_path |-> PyStr("/data")]) }

ModelChoices ==
    { PyDict([name |-> PyStr("gcn")]),
      PyDict([name |-> PyStr("sage"), aggregator_type |-> PyStr("mean")]) }

BaseInput ==
    [pipeline_name    |-> PyStr(PipelineName),
     device           |-> PyStr("cpu"),
     data             |-> PyDict([name |-> PyStr("cora")]),
     model            |-> PyDict([name |-> PyStr("gcn")]),
     general_pipeline |-> PyDict(NodepredPipelineCfg)]

\* dictionaries that satisfy the schema
WellFormedInputs ==
    { [BaseInput EXCEPT !["data"] = d, !["model"] = m, !["general_pipeline"] = g] :
        d \in DataChoices, m \in ModelChoices, g \in GeneralPipelineChoices }
    \cup { DictDel([BaseInput EXCEPT !["data"] = d, !["model"] = m], "general_pipeline") :
        d \in DataChoices, m \in ModelChoices }

\* dictionaries with one fault each
FaultyInputs ==
    { DictDel(BaseInput, "pipeline_name"),
      [BaseInput EXCEPT !["device"] = PyStr("tpu")],
      [BaseInput EXCEPT !["data"] = PyDict([name |-> PyStr("bogus")])],
      [BaseInput EXCEPT !["data"] = PyDict([data_path |-> PyStr("/data")])],
      [BaseInput EXCEPT !["model"] = PyDict([name |-> PyStr("nomodel")])],
      [BaseInput EXCEPT !["general_pipeline"] = PyDict([num_epochs |-> PyStr("many")])] }

InputDicts == WellFormedInputs \cup FaultyInputs

(***************************************************************************)
(* State                                                                   *)
(***************************************************************************)
VARIABLES
    user_cfg_cls,         \* NodepredPipeline.user_cfg_cls, the class attribute
    registrations,        \* how often setup_user_cfg_cls ran (saturating)
    heap,                 \* the dictionary objects
    user_cfg_dict,        \* the caller's dictionary (address)
    original,             \* the caller's dictionary as the caller built it
    first_valid,          \* outcome of the first validation of the caller's dictionary
    calls,                \* gen_script calls made on the caller's dictionary (saturating)
    op,                   \* the operation running or last run
    pc,                   \* the line about to run, "idle" between calls
    user_cfg,             \* gen_script: the validated configuration
    template,             \* gen_script: the template was read
    render_cfg,           \* gen_script: address, 0 when unbound
    generated_user_cfg,   \* gen_script: address, 0 when unbound
    generated_train_cfg,  \* gen_script: address, 0 when unbound
    outcome,              \* how the last call ended
    script,               \* the text gen_script returned
    fs,                   \* the file system: path -> file
    args,                 \* config: the arguments data, model, device, cfg
    generated_cfg,        \* config: the draft dictionary
    output_cfg,           \* config: the validated mapping
    comment_dict          \* config: the comment overlay, then the merged mapping

gsLocals == <<user_cfg, template, render_cfg, generated_user_cfg, generated_train_cfg>>

vars == <<user_cfg_cls, registrations, heap, user_cfg_dict, original, first_valid, calls, op, pc,
          user_cfg, template, render_cfg, generated_user_cfg, generated_train_cfg,
          outcome, script, fs, args, generated_cfg, output_cfg, comment_dict>>

cfLocals == <<args, generated_cfg, output_cfg, comment_dict>>

callerState == <<heap, user_cfg_dict, original, first_valid, calls>>

NoFile == [exists |-> FALSE, doc |-> <<>>]

EmptyFile == [exists |-> TRUE, doc |-> <<>>]

\* a file some earlier tool left at the output path
OldFile ==
    [exists |-> TRUE,
     doc |-> [p \in {<<"pipeline_name">>} |-> [text |-> "linkpred", style |-> "plain", comment |-> ""]]]

NoArgs == [data |-> "", model |-> "", device |-> PyStr(""), cfg |-> ""]

NoScript == [rendered |-> FALSE, context |-> <<>>]

Init ==
    /\ user_cfg_cls = PropertyObject
    /\ registrations = 0
    /\ \E d \in InputDicts :
          /\ heap = Alloc(EmptyHeap, d).heap
          /\ user_cfg_dict = Alloc(EmptyHeap, d).addr
          /\ original = d
    /\ first_valid = "none"
    /\ calls = 0
    /\ op = "none"
    /\ pc = "idle"
    /\ user_cfg = <<>>
    /\ template = FALSE
    /\ render_cfg = 0
    /\ generated_user_cfg = 0
    /\ generated_train_cfg = 0
    /\ outcome = "none"
    /\ script = NoScript
    /\ fs \in [Paths -> {NoFile, OldFile}]
    /\ args = NoArgs
    /\ generated_cfg = <<>>
    /\ output_cfg = <<>>
    /\ comment_dict = <<>>

(***************************************************************************)
(* setup_user_cfg_cls (lines 40-48)                                        *)
(***************************************************************************)
\* variant: a repeated registration clears the attribute instead of recomputing it
setup_user_cfg_cls_toggle(cls) ==
    IF cls.name = "property" THEN NodePredUserConfig ELSE PropertyObject

setup_user_cfg_cls(cls) == NodePredUserConfig

Saturate(n) == IF n < MaxCount THEN n + 1 ELSE n

(***************************************************************************)
(* gen_script (lines 84-115)                                               *)
(***************************************************************************)
\* the call ends: the locals die, what only they referenced is collected
GsLeave(h, o, s) ==
    /\ pc' = "idle"
    /\ outcome' = o
    /\ script' = s
    /\ heap' = Collect(h, {user_cfg_dict})
    /\ user_cfg' = <<>>
    /\ template' = FALSE
    /\ render_cfg' = 0
    /\ generated_user_cfg' = 0
    /\ generated_train_cfg' = 0
    /\ UNCHANGED <<fs, cfLocals, op, calls>>

GsRaise(exc) == GsLeave(heap, exc, NoScript)

GsGoto(l) == pc' = l /\ UNCHANGED <<outcome, script, fs, cfLocals, op, calls>>

gen_script_call ==
    /\ pc = "idle"
    /\ pc' = "gs87"
    /\ outcome' = "none"
    /\ script' = NoScript
    /\ op' = "gen_script"
    /\ calls' = Saturate(calls)
    /\ UNCHANGED <<user_cfg_cls, registrations, heap, user_cfg_dict, original, first_valid,
                   gsLocals, fs, cfLocals>>

gen_script_L87 ==
    /\ pc = "gs87"
    /\ user_cfg_cls' = setup_user_cfg_cls(user_cfg_cls)
    /\ registrations' = Saturate(registrations)
    /\ GsGoto("gs88")
    /\ UNCHANGED <<heap, user_cfg_dict, original, first_valid, gsLocals>>

\* variant: the result of the validation is ignored
gen_script_L88_no_abort ==
    /\ pc = "gs88"
    /\ user_cfg' = <<>>
    /\ first_valid' = first_valid
    /\ GsGoto("gs89")
    /\ UNCHANGED <<heap, template, render_cfg, generated_user_cfg, generated_train_cfg>>
    /\ UNCHANGED <<user_cfg_cls, registrations, user_cfg_dict, original>>

gen_script_L88 ==
    /\ pc = "gs88"
    /\ LET d == Materialize(heap, user_cfg_dict)
       IN  IF user_cfg_cls.name = "property"
           THEN GsRaise("TypeError") /\ UNCHANGED first_valid
           ELSE IF ValidateOK(user_cfg_cls, d)
           THEN /\ user_cfg' = ValidatedDict(user_cfg_cls, d)
                /\ first_valid' = IF first_valid = "none" THEN "ok" ELSE first_valid
                /\ GsGoto("gs89")
                /\ UNCHANGED <<heap, template, render_cfg, generated_user_cfg,
                               generated_train_cfg>>
           ELSE /\ GsRaise("ValidationError")
                /\ first_valid' = IF first_valid = "none" THEN "error" ELSE first_valid
    /\ UNCHANGED <<user_cfg_cls, registrations, user_cfg_dict, original>>

gen_script_L89 ==
    /\ pc = "gs89"
    /\ template' = TRUE
    /\ GsGoto("gs93")
    /\ UNCHANGED <<user_cfg_cls, registrations, heap, user_cfg_dict, original, first_valid,
                   user_cfg, render_cfg, generated_user_cfg, generated_train_cfg>>

gen_script_L93 ==
    /\ pc = "gs93"
    /\ heap' = DeepCopy(heap, user_cfg_dict).heap
    /\ render_cfg' = DeepCopy(heap, user_cfg_dict).addr
    /\ GsGoto("gs94")
    /\ UNCHANGED <<user_cfg_cls, registrations, user_cfg_dict, original, first_valid,
                   user_cfg, template, generated_user_cfg, generated_train_cfg>>

\* user_cfg_dict["model"]["name"] and user_cfg_dict["data"]["name"]
NameOf(h, a, section) == h[Subscript(h, a, <<section>>)]["name"].s

gen_script_L94 ==
    /\ pc = "gs94"
    /\ LET m == NameOf(heap, user_cfg_dict, "model")
           n == NameOf(heap, user_cfg_dict, "data")
       IN  IF m \notin DOMAIN NodeModelFactory_registry \/ n \notin DOMAIN DataFactory_registry
           THEN GsRaise("LookupError")
           ELSE /\ heap' = HeapPut(heap, render_cfg,
                              DictUpdate(
                                  DictSet(DictSet(heap[render_cfg],
                                      "model_code", NodeModelFactory_get_source_code(m)),
                                      "model_class_name", NodeModelFactory_get_model_class_name(m)),
                                  DataFactory_get_generated_code_dict(n)))
                /\ GsGoto("gs101")
                /\ UNCHANGED gsLocals
    /\ UNCHANGED <<user_cfg_cls, registrations, user_cfg_dict, original, first_valid>>

gen_script_L101 ==
    /\ pc = "gs101"
    /\ heap' = DeepCopy(heap, user_cfg_dict).heap
    /\ generated_user_cfg' = DeepCopy(heap, user_cfg_dict).addr
    /\ GsGoto("gs102")
    /\ UNCHANGED <<user_cfg_cls, registrations, user_cfg_dict, original, first_valid,
                   user_cfg, template, render_cfg, generated_train_cfg>>

\* variant: the name is popped whatever the number of fields
ReduceData_pop_name_only(h, g) == PopAt(h, g, <<"data">>, "name")

\* lines 102-105: the data section of the reduced configuration
ReduceData(h, g) ==
    IF Cardinality(DOMAIN h[Subscript(h, g, <<"data">>)]) = 1
    THEN PopKey(h, g, "data")
    ELSE PopAt(h, g, <<"data">>, "name")

gen_script_L102 ==
    /\ pc = "gs102"
    /\ heap' = ReduceData(heap, generated_user_cfg)
    /\ GsGoto("gs106")
    /\ UNCHANGED <<user_cfg_cls, registrations, user_cfg_dict, original, first_valid,
                   gsLocals>>

\* variant: the key is left in place
GsPop_skipped(root, path, key, next) ==
    /\ GsGoto(next)
    /\ UNCHANGED <<heap, gsLocals>>
    /\ UNCHANGED <<user_cfg_cls, registrations, user_cfg_dict, original, first_valid>>

\* one pop of lines 106-108 and 111: KeyError when the key is missing
GsPop(root, path, key, next) ==
    /\ IF CanPop(heap, root, path, key)
       THEN /\ heap' = PopAt(heap, root, path, key)
            /\ GsGoto(next)
            /\ UNCHANGED gsLocals
       ELSE GsRaise("KeyError")
    /\ UNCHANGED <<user_cfg_cls, registrations, user_cfg_dict, original, first_valid>>

gen_script_L106 ==
    /\ pc = "gs106"
    /\ GsPop(generated_user_cfg, <<>>, "pipeline_name", "gs107")

gen_script_L107 ==
    /\ pc = "gs107"
    /\ GsPop(generated_user_cfg, <<"model">>, "name", "gs108")

gen_script_L108 ==
    /\ pc = "gs108"
    /\ GsPop(generated_user_cfg, <<"general_pipeline", "optimizer">>, "name", "gs110")

gen_script_L110 ==
    /\ pc = "gs110"
    /\ LET src == Subscript(heap, user_cfg_dict, <<"general_pipeline">>)
       IN  IF src = 0
           THEN GsRaise("KeyError")
           ELSE /\ heap' = DeepCopy(heap, src).heap
                /\ generated_train_cfg' = DeepCopy(heap, src).addr
                /\ GsGoto("gs111")
                /\ UNCHANGED <<user_cfg, template, render_cfg, generated_user_cfg>>
    /\ UNCHANGED <<user_cfg_cls, registrations, user_cfg_dict, original, first_valid>>

gen_script_L111 ==
    /\ pc = "gs111"
    /\ GsPop(generated_train_cfg, <<"optimizer">>, "name", "gs113")

\* template.render(**render_cfg): the text is determined by the template and
\* the context it is given
Render(h, ctx) == [rendered |-> TRUE, context |-> Materialize(h, ctx)]

\* lines 113-115
gen_script_L113 ==
    /\ pc = "gs113"
    /\ LET h1 == SetKey(heap, render_cfg, "user_cfg_str",
                        UserCfgStr(Materialize(heap, generated_user_cfg)))
           h2 == SetKey(h1, render_cfg, "user_cfg", PyRef(user_cfg_dict))
       IN  GsLeave(h2, "script", Render(h2, render_cfg))
    /\ UNCHANGED <<user_cfg_cls, registrations, user_cfg_dict, original, first_valid>>

gen_script ==
    \/ gen_script_L87 \/ gen_script_L88 \/ gen_script_L89 \/ gen_script_L93
    \/ gen_script_L94 \/ gen_script_L101 \/ gen_script_L102 \/ gen_script_L106
    \/ gen_script_L107 \/ gen_script_L108 \/ gen_script_L110 \/ gen_script_L111
    \/ gen_script_L113

(***************************************************************************)
(* utils/yaml_dump.py and the YAML serializer                              *)
(***************************************************************************)
\* recursively turn non-primitive values (enum members) into primitives
RECURSIVE deep_convert_dict(_)
deep_convert_dict(f) ==
    [k \in DOMAIN f |->
        IF f[k].t = "dict" THEN PyDict(deep_convert_dict(f[k].d))
        ELSE IF f[k].t = "enum" THEN PyStr(f[k].s)
        ELSE f[k]]

\* paths of the values that are not dictionaries
RECURSIVE ScalarPaths(_)
ScalarPaths(f) ==
    UNION { IF f[k].t # "dict" THEN {<<k>>}
            ELSE { <<k>> \o p : p \in ScalarPaths(f[k].d) } : k \in DOMAIN f }

\* the mapping with a comment attached to every key path that the mapping
\* and the overlay both have
merge_comment(config, comments) ==
    [value    |-> config,
     comments |-> [p \in ScalarPaths(config) \cap ScalarPaths(comments) |->
                      ValueAt(comments, p).s]]

IntTexts == -1 .. 200

FloatTexts == {"0.005", "0.01"}

\* the type a plain YAML scalar resolves to
ResolvePlain(text) ==
    IF \E n \in IntTexts : ToString(n) = text
    THEN PyInt(CHOOSE n \in IntTexts : ToString(n) = text)
    ELSE IF text \in FloatTexts THEN PyFloat(text)
    ELSE PyStr(text)

\* one scalar of the document
YamlScalar(v, c) ==
    IF v.t = "int" THEN [text |-> ToString(v.i), style |-> "plain", comment |-> c]
    ELSE IF v.t = "float" THEN [text |-> v.s, style |-> "plain", comment |-> c]
    ELSE IF v.t = "str"
         THEN [text |-> v.s,
               style |-> IF ResolvePlain(v.s).t = "str" THEN "plain" ELSE "quoted",
               comment |-> c]
    ELSE IF v.t = "dict" THEN [text |-> "{}", style |-> "flow", comment |-> c]
    ELSE [text |-> v.s, style |-> "tagged", comment |-> c]

\* yaml.dump(commented_map, stream): the document, one entry per leaf
YamlDump(cm) ==
    [p \in LeafPaths(cm.value) |->
        YamlScalar(ValueAt(cm.value, p),
                   IF p \in DOMAIN cm.comments THEN cm.comments[p] ELSE "")]

YamlLoadScalar(e) ==
    IF e.style = "plain" THEN ResolvePlain(e.text)
    ELSE IF e.style = "quoted" THEN PyStr(e.text)
    ELSE IF e.style = "flow" THEN PyDict(<<>>)
    ELSE [t |-> "object", s |-> e.text, i |-> 0, d |-> <<>>]

IsPrefix(q, p) == Len(q) < Len(p) /\ SubSeq(p, 1, Len(q)) = q

\* yaml.load(stream): the nested mapping of a document
RECURSIVE YamlLoadAt(_, _)
YamlLoadAt(doc, prefix) ==
    [k \in { p[Len(prefix) + 1] : p \in { q \in DOMAIN doc : IsPrefix(prefix, q) } } |->
        IF (prefix \o <<k>>) \in DOMAIN doc
        THEN YamlLoadScalar(doc[prefix \o <<k>>])
        ELSE PyDict(YamlLoadAt(doc, prefix \o <<k>>))]

YamlLoad(doc) == YamlLoadAt(doc, <<>>)

(***************************************************************************)
(* get_cfg_func.config (lines 55-80)                                       *)
(***************************************************************************)
\* variant: two comments exchanged
pipeline_comments_swapped ==
    [node_embed_size |-> PyStr("The node learnable embedding size, -1 to disable"),
     num_epochs      |-> PyStr("Interval epochs between evaluations"),
     eval_period     |-> PyStr("Number of training epochs"),
     early_stop      |-> PyDict([patience        |-> PyStr("Steps before early stop"),
                                 checkpoint_path |-> PyStr("Early stop checkpoint model file path")])]

pipeline_comments ==
    [node_embed_size |-> PyStr("The node learnable embedding size, -1 to disable"),
     num_epochs      |-> PyStr("Number of training epochs"),
     eval_period     |-> PyStr("Interval epochs between evaluations"),
     early_stop      |-> PyDict([patience        |-> PyStr("Steps before early stop"),
                                 checkpoint_path |-> PyStr("Early stop checkpoint model file path")])]

CfLeave(o) ==
    /\ pc' = "idle"
    /\ outcome' = o
    /\ args' = NoArgs
    /\ generated_cfg' = <<>>
    /\ output_cfg' = <<>>
    /\ comment_dict' = <<>>

CfFrame == UNCHANGED <<callerState, gsLocals, script, op>>

config_call ==
    /\ pc = "idle"
    /\ \E data \in DataArgs, model \in ModelArgs, device \in DeviceArgs, cfg \in Paths :
          args' = [data |-> data, model |-> model, device |-> device, cfg |-> cfg]
    /\ pc' = "cf62"
    /\ outcome' = "none"
    /\ script' = NoScript
    /\ op' = "config"
    /\ UNCHANGED <<user_cfg_cls, registrations, callerState, gsLocals, fs,
                   generated_cfg, output_cfg, comment_dict>>

config_L62 ==
    /\ pc = "cf62"
    /\ user_cfg_cls' = setup_user_cfg_cls(user_cfg_cls)
    /\ registrations' = Saturate(registrations)
    /\ pc' = "cf63"
    /\ UNCHANGED <<outcome, fs, cfLocals>>
    /\ CfFrame

\* variant: the dataset and the model choice exchanged
GeneratedCfg_swapped(a) ==
    [pipeline_name    |-> PyStr("nodepred"),
     device           |-> a.device,
     data             |-> PyDict([name |-> PyStr(a.model)]),
     model            |-> PyDict([name |-> PyStr(a.data)]),
     general_pipeline |-> PyDict(NodepredPipelineCfg)]

\* lines 63-69
GeneratedCfg(a) ==
    [pipeline_name    |-> PyStr("nodepred"),
     device           |-> a.device,
     data             |-> PyDict([name |-> PyStr(a.data)]),
     model            |-> PyDict([name |-> PyStr(a.model)]),
     general_pipeline |-> PyDict(NodepredPipelineCfg)]

\* variant: the output file is opened when the draft is assembled
config_L63_opens_output ==
    /\ pc = "cf63"
    /\ generated_cfg' = GeneratedCfg(args)
    /\ fs' = [fs EXCEPT ![args.cfg] = EmptyFile]
    /\ pc' = "cf70"
    /\ UNCHANGED <<user_cfg_cls, registrations, outcome, args, output_cfg, comment_dict>>
    /\ CfFrame

config_L63 ==
    /\ pc = "cf63"
    /\ generated_cfg' = GeneratedCfg(args)
    /\ pc' = "cf70"
    /\ UNCHANGED <<user_cfg_cls, registrations, outcome, fs, args, output_cfg, comment_dict>>
    /\ CfFrame

config_L70 ==
    /\ pc = "cf70"
    /\ IF user_cfg_cls.name = "property"
       THEN CfLeave("TypeError")
       ELSE IF ValidateOK(user_cfg_cls, generated_cfg)
       THEN /\ output_cfg' = ValidatedDict(user_cfg_cls, generated_cfg)
            /\ pc' = "cf71"
            /\ UNCHANGED <<outcome, args, generated_cfg, comment_dict>>
       ELSE CfLeave("ValidationError")
    /\ UNCHANGED <<user_cfg_cls, registrations, fs>>
    /\ CfFrame

config_L71 ==
    /\ pc = "cf71"
    /\ output_cfg' = deep_convert_dict(output_cfg)
    /\ pc' = "cf72"
    /\ UNCHANGED <<user_cfg_cls, registrations, outcome, fs, args, generated_cfg, comment_dict>>
    /\ CfFrame

\* lines 72-75
CommentDict(a) ==
    [general_pipeline |-> PyDict(pipeline_comments),
     model            |-> PyDict(NodeModelFactory_get_constructor_doc_dict(a.model))]

config_L72 ==
    /\ pc = "cf72"
    /\ comment_dict' = CommentDict(args)
    /\ pc' = "cf76"
    /\ UNCHANGED <<user_cfg_cls, registrations, outcome, fs, args, generated_cfg, output_cfg>>
    /\ CfFrame

config_L76 ==
    /\ pc = "cf76"
    /\ comment_dict' = merge_comment(output_cfg, comment_dict)
    /\ pc' = "cf79"
    /\ UNCHANGED <<user_cfg_cls, registrations, outcome, fs, args, generated_cfg, output_cfg>>
    /\ CfFrame

\* line 79, the argument Path(cfg).open("w"): the file is created or truncated
config_L79_open ==
    /\ pc = "cf79"
    /\ fs' = [fs EXCEPT ![args.cfg] = EmptyFile]
    /\ pc' = "cf79dump"
    /\ UNCHANGED <<user_cfg_cls, registrations, outcome, cfLocals>>
    /\ CfFrame

\* line 79, yaml.dump
config_L79_dump ==
    /\ pc = "cf79dump"
    /\ fs' = [fs EXCEPT ![args.cfg] = [exists |-> TRUE, doc |-> YamlDump(comment_dict)]]
    /\ pc' = "cf80"
    /\ UNCHANGED <<user_cfg_cls, registrations, outcome, cfLocals>>
    /\ CfFrame

config_L80 ==
    /\ pc = "cf80"
    /\ CfLeave("written")
    /\ UNCHANGED <<user_cfg_cls, registrations, fs>>
    /\ CfFrame

config ==
    \/ config_L62 \/ config_L63 \/ config_L70 \/ config_L71 \/ config_L72
    \/ config_L76 \/ config_L79_open \/ config_L79_dump \/ config_L80

(***************************************************************************)
(* The caller parses a configuration file and keeps the dictionary         *)
(***************************************************************************)
load_cfg ==
    /\ pc = "idle"
    /\ \E p \in Paths :
          /\ fs[p].exists
          /\ fs[p].doc # <<>>
          /\ heap' = Alloc(EmptyHeap, YamlLoad(fs[p].doc)).heap
          /\ user_cfg_dict' = Alloc(EmptyHeap, YamlLoad(fs[p].doc)).addr
          /\ original' = YamlLoad(fs[p].doc)
    /\ first_valid' = "none"
    /\ calls' = 0
    /\ op' = "load"
    /\ outcome' = "none"
    /\ script' = NoScript
    /\ UNCHANGED <<user_cfg_cls, registrations, pc, gsLocals, fs, cfLocals>>

Next ==
    \/ gen_script_call
    \/ gen_script
    \/ config_call
    \/ config
    \/ load_cfg

Spec == Init /\ [][Next]_vars

(***************************************************************************)
(* Properties                                                              *)
(***************************************************************************)
GsAfterValidation ==
    {"gs89", "gs93", "gs94", "gs101", "gs102", "gs106", "gs107", "gs108", "gs110",
     "gs111", "gs113"}

GsAfterReduceData == {"gs106", "gs107", "gs108", "gs110", "gs111", "gs113"}

\* the literal has the key path q
LiteralHasKey(lit, q) == \E p \in DOMAIN lit : p = q \/ IsPrefix(q, p)

\* the choices of a config call are registered ones
RegisteredChoice(a) ==
    /\ a.data \in DataFactory_get_dataset_enum
    /\ a.model \in NodeModelFactory_get_model_enum
    /\ a.device.s \in DeviceEnum

\* C1: whenever gen_script returns a script, the reduced configuration embedded
\* as "cfg = <literal>" has no top-level pipeline_name key, no name key under
\* model and no name key under general_pipeline.optimizer.
C1_ReducedLiteralOmitsNames ==
    outcome = "script" =>
        LET lit == script.context["user_cfg_str"]
        IN  /\ lit.s = "cfg = "
            /\ ~LiteralHasKey(lit.d, <<"pipeline_name">>)
            /\ ~LiteralHasKey(lit.d, <<"model", "name">>)
            /\ ~LiteralHasKey(lit.d, <<"general_pipeline", "optimizer", "name">>)

\* a script was returned for a dictionary that had all three keys, and the
\* literal keeps the other optimizer and model fields
C1_Witness ==
    /\ outcome = "script"
    /\ Has(original, "pipeline_name")
    /\ Has(original["model"].d, "name")
    /\ Has(original["general_pipeline"].d["optimizer"].d, "name")
    /\ LiteralHasKey(script.context["user_cfg_str"].d, <<"general_pipeline", "optimizer", "lr">>)
    /\ LiteralHasKey(script.context["user_cfg_str"].d, <<"model", "aggregator_type">>)

\* C2: a dataset descriptor with exactly one field leaves no data key in the
\* reduced configuration; one with more fields leaves a data key holding every
\* field but name, with the values unchanged.  Stated of the reduced dictionary
\* once lines 102-105 ran, and of the literal of a returned script.
C2_DataSectionReduced ==
    LET fields == DOMAIN original["data"].d
    IN  /\ pc \in GsAfterReduceData =>
            LET red == Materialize(heap, generated_user_cfg)
            IN  IF Cardinality(fields) = 1
                THEN ~Has(red, "data")
                ELSE /\ Has(red, "data")
                     /\ red["data"] = PyDict(DictDel(original["data"].d, "name"))
        /\ outcome = "script" =>
            LET lit == script.context["user_cfg_str"].d
            IN  IF Cardinality(fields) = 1
                THEN ~LiteralHasKey(lit, <<"data">>)
                ELSE /\ { p \in DOMAIN lit : p[1] = "data" } =
                            { <<"data", k>> : k \in fields \ {"name"} }
                     /\ \A k \in fields \ {"name"} : lit[<<"data", k>>] = original["data"].d[k]

\* a script was returned for a descriptor with a parameter beside the name
C2_Witness ==
    /\ outcome = "script"
    /\ Cardinality(DOMAIN original["data"].d) = 2
    /\ <<"data", "data_path">> \in DOMAIN script.context["user_cfg_str"].d

\* C3: in config generation the draft is validated strictly before the output
\* file is opened: the file system changes only at line 79, which runs only
\* with a draft that passed validation, so a rejected draft leaves the output
\* path as it was (not created, not truncated).
C3_ValidationBeforeOpen ==
    [][fs' # fs =>
          /\ pc \in {"cf79", "cf79dump"}
          /\ output_cfg # <<>>
          /\ ValidateOK(NodePredUserConfig, generated_cfg)]_vars

\* config generation rejected a draft and the earlier file is still there
C3_Witness ==
    /\ op = "config"
    /\ outcome = "ValidationError"
    /\ fs["cfg.yml"] = OldFile

\* C4: for every registered dataset choice, registered model choice and device
\* in {cpu, cuda}, config generation passes validation and writes a file, and
\* every file it writes, parsed back, passes the validation of gen_script.
C4_GeneratedFileRevalidates ==
    /\ [](\A p \in Paths :
            (fs[p].exists /\ fs[p] \notin {EmptyFile, OldFile}) =>
                ValidateOK(setup_user_cfg_cls(user_cfg_cls), YamlLoad(fs[p].doc)))
    /\ [][(pc = "cf70" /\ RegisteredChoice(args)) => pc' = "cf71"]_vars
    /\ [](op = "config" /\ outcome = "written" => fs["cfg.yml"] \notin {NoFile, EmptyFile, OldFile})

\* gen_script validated a dictionary parsed from a generated file for the
\* csv dataset on cuda
C4_Witness ==
    /\ op = "gen_script"
    /\ pc = "gs89"
    /\ original = YamlLoad(fs["cfg.yml"].doc)
    /\ original["device"] = PyStr("cuda")
    /\ original["data"].d["name"] = PyStr("csv")

\* C5: with the pipeline settings omitted the validated configuration carries
\* node_embed_size -1, num_epochs 200, eval_period 5, optimizer {name: Adam,
\* lr: 0.005}, loss CrossEntropyLoss, and the file config generation writes
\* has these values under general_pipeline.
C5_Defaults ==
    /\ (pc \in GsAfterValidation /\ ~Has(original, "general_pipeline")) =>
          LET gp == user_cfg["general_pipeline"].d
          IN  /\ gp["node_embed_size"] = PyInt(-1)
              /\ gp["num_epochs"] = PyInt(200)
              /\ gp["eval_period"] = PyInt(5)
              /\ gp["optimizer"] = PyDict([name |-> PyStr("Adam"), lr |-> PyFloat("0.005")])
              /\ gp["loss"] = PyStr("CrossEntropyLoss")
    /\ (op = "config" /\ outcome = "written") =>
          LET doc == fs["cfg.yml"].doc
          IN  /\ doc[<<"general_pipeline", "node_embed_size">>].text = "-1"
              /\ doc[<<"general_pipeline", "num_epochs">>].text = "200"
              /\ doc[<<"general_pipeline", "eval_period">>].text = "5"
              /\ doc[<<"general_pipeline", "optimizer", "name">>].text = "Adam"
              /\ doc[<<"general_pipeline", "optimizer", "lr">>].text = "0.005"
              /\ doc[<<"general_pipeline", "loss">>].text = "CrossEntropyLoss"

\* gen_script validated a dictionary without general_pipeline, after config
\* generation had written a file
C5_Witness ==
    /\ pc = "gs89"
    /\ ~Has(original, "general_pipeline")
    /\ Has(user_cfg, "general_pipeline")
    /\ fs["cfg.yml"] \notin {NoFile, EmptyFile, OldFile}

\* C6: merging the comment overlay changes no key and no value of the
\* validated mapping; a comment is attached only at a key path the mapping
\* has, with the overlay's text; an overlay entry without such a path
\* (the model's data_info) is dropped; general_pipeline.num_epochs = 200
\* carries "Number of training epochs", also in the written file.
C6_CommentMerge ==
    /\ pc \in {"cf79", "cf79dump", "cf80"} =>
          /\ comment_dict.value = output_cfg
          /\ \A p \in DOMAIN comment_dict.comments :
                /\ p \in ScalarPaths(output_cfg)
                /\ comment_dict.comments[p] = ValueAt(CommentDict(args), p).s
          /\ <<"model", "data_info">> \notin DOMAIN comment_dict.comments
          /\ output_cfg["general_pipeline"].d["num_epochs"] = PyInt(200)
          /\ comment_dict.comments[<<"general_pipeline", "num_epochs">>] =
                "Number of training epochs"
    /\ (op = "config" /\ outcome = "written") =>
          LET doc == fs["cfg.yml"].doc
          IN  /\ doc[<<"general_pipeline", "num_epochs">>] =
                    [text |-> "200", style |-> "plain", comment |-> "Number of training epochs"]
              /\ <<"model", "data_info">> \notin DOMAIN doc

\* the merged mapping of a gcn configuration: the hidden_size comment is
\* attached, the overlay had a data_info entry
C6_Witness ==
    /\ pc = "cf79"
    /\ args.model = "gcn"
    /\ Has(CommentDict(args)["model"].d, "data_info")
    /\ comment_dict.comments[<<"model", "hidden_size">>] = "Hidden size"

\* C7: gen_script validates before the template is read, the catalogs are
\* consulted, the configuration is reduced or the script rendered; a failed
\* validation ends the call with the validation error and no script; and no
\* step of gen_script changes the file system.
C7_ValidationFirst ==
    /\ [](/\ pc \in GsAfterValidation =>
                /\ user_cfg # <<>>
                /\ ValidateOK(NodePredUserConfig, Materialize(heap, user_cfg_dict))
          /\ (template \/ render_cfg # 0 \/ generated_user_cfg # 0 \/ generated_train_cfg # 0)
                => pc \in GsAfterValidation
          /\ script.rendered => ValidateOK(NodePredUserConfig, original)
          /\ (op = "gen_script" /\ outcome = "ValidationError") => script = NoScript)
    /\ [][(pc = "gs88" /\ ~ValidateOK(user_cfg_cls, Materialize(heap, user_cfg_dict)))
             => (pc' = "idle" /\ outcome' = "ValidationError")]_vars
    /\ [][op' = "gen_script" => fs' = fs]_vars

\* gen_script rejected a dictionary while a generated file exists
C7_Witness ==
    /\ op = "gen_script"
    /\ outcome = "ValidationError"
    /\ script = NoScript
    /\ fs["cfg.yml"].exists

\* C8: gen_script leaves the caller's dictionary unchanged at every nesting
\* level, at every step of every call, and the user_cfg handed to the
\* template is the original input with pipeline_name, data.name, model.name
\* and general_pipeline.optimizer.name.
C8_InputUnchanged ==
    /\ Materialize(heap, user_cfg_dict) = original
    /\ outcome = "script" =>
          LET u == script.context["user_cfg"].d
          IN  /\ u = original
              /\ Has(u, "pipeline_name")
              /\ Has(u["data"].d, "name")
              /\ Has(u["model"].d, "name")
              /\ Has(u["general_pipeline"].d["optimizer"].d, "name")

\* the second call on the same dictionary, with a multi-field data section,
\* returned a script
C8_Witness ==
    /\ outcome = "script"
    /\ calls >= 2
    /\ Cardinality(DOMAIN original["data"].d) = 2

\* C9: both operations register the schema before they validate, so no
\* validation meets the unregistered attribute; a repeated registration
\* leaves the registered schema as it was; and a repeated validation of the
\* same dictionary ends as the first one did.
C9_RegistrationFirstAndIdempotent ==
    /\ [](/\ pc \in {"gs88", "cf63", "cf70"} => user_cfg_cls.name # "property"
          /\ outcome # "TypeError")
    /\ [][(pc \in {"gs87", "cf62"} /\ registrations >= 1) => user_cfg_cls' = user_cfg_cls]_vars
    /\ [][(pc = "gs88" /\ first_valid # "none")
             => ((pc' = "gs89") <=> (first_valid = "ok"))]_vars

\* a dictionary validated again after config generation and gen_script both
\* registered the schema
C9_Witness ==
    /\ pc = "gs89"
    /\ calls >= 2
    /\ registrations >= 2
    /\ first_valid = "ok"
    /\ fs["cfg.yml"] \notin {NoFile, EmptyFile, OldFile}

\* C10: for every dictionary that passes validation and whose dataset and
\* model are in the catalogs, gen_script returns the script.
C10_OnlyValidationAndLookupFail ==
    (op = "gen_script" /\ pc = "idle" /\ ValidateOK(NodePredUserConfig, original)
        /\ original["data"].d["name"].s \in DOMAIN DataFactory_registry
        /\ original["model"].d["name"].s \in DOMAIN NodeModelFactory_registry)
    => outcome = "script"

====
